---- MODULE Spec2Model ----
(***************************************************************************)
(* A model of legend.py: the Legend class layered on the ChIPS scripting   *)
(* interface (pychips).  The host application is modelled as a tree of     *)
(* objects (windows, frames, plots, and the objects of a plot) kept in     *)
(* report order, each with a "current" mark among its siblings, plus the   *)
(* depth of open undo blocks.  Every public method of Legend is one        *)
(* action that threads an execution record through the host calls the      *)
(* method makes, in the order it makes them; a host call that raises       *)
(* leaves its exception in the record and the rest of the method is        *)
(* skipped, as Python skips it.  move() is the one method that blocks: it  *)
(* is split at each get_pick().                                            *)
(*                                                                         *)
(* Text is modelled as a sequence of tokens (strings); the status reports  *)
(* are built by the host from its tree and taken apart again by the two    *)
(* lookups exactly as the code does (split into lines, strip, startswith,  *)
(* split at the brackets).                                                 *)
(***************************************************************************)
EXTENDS Integers, Sequences, FiniteSets, TLC

VARIABLES objs,      \* the host's objects, in report (pre-)order
          undo,      \* the host's number of open undo blocks
          self,      \* the fields of the one Legend instance the session holds
          pc,        \* "idle", or "move" while move() waits in get_pick()
          old_frame, \* move()'s local: the frame to restore on quit
          key,       \* the key the running/last move() read last ("" before the first)
          moved,     \* the move_frame requests made for that key, and whether the host refused
          call,      \* the last public call: its name, argument, outcome, and the state before it
          used,      \* number of objects the user has added and style used made
          report,    \* lookup harness: the status report handed to a lookup
          tag,       \* lookup harness: the type tag looked up
          out        \* lookup harness: the outcome of the lookup

vars == <<objs, undo, self, pc, old_frame, key, moved, call, used, report, tag, out>>

(***************************************************************************)
(* Bounds of the model.                                                    *)
(***************************************************************************)
MaxUser == 5        \* objects the user adds and style used the user makes, in all
MaxCurves == 6      \* curves of the plot a drawing session starts with
MaxLines == 3       \* lines of a status report handed to the lookup harness
MaxUndo == 1        \* open undo blocks beyond which no further public call is started

\* a report is [none |-> TRUE] for Python's None, else its text
NoReport == [none |-> TRUE, text |-> <<>>]
Text(t) == [none |-> FALSE, text |-> t]
NoExc == "none"

Min(a, b) == IF a < b THEN a ELSE b

(***************************************************************************)
(* Text: str(), bytes.lower(), str.split, str.strip, str.startswith.       *)
(***************************************************************************)
Digit(d) == CASE d = 0 -> "0" [] d = 1 -> "1" [] d = 2 -> "2" [] d = 3 -> "3"
              [] d = 4 -> "4" [] d = 5 -> "5" [] d = 6 -> "6" [] d = 7 -> "7"
              [] d = 8 -> "8" [] d = 9 -> "9"

\* str() counting from one
StrBug(n) == <<Digit((n + 1) % 10)>>

RECURSIVE Str(_)
Str(n) == IF n < 10 THEN <<Digit(n)>> ELSE Str(n \div 10) \o <<Digit(n % 10)>>

\* no lower(): the keys are matched as typed
LowerBug(k) == k

Lower(k) == CASE k = "W" -> "w" [] k = "A" -> "a" [] k = "S" -> "s"
              [] k = "D" -> "d" [] k = "Q" -> "q" [] k = "X" -> "x"
              [] OTHER -> k

\* text.split(sep): the pieces between the separators, at least one piece
RECURSIVE SplitAt(_, _)
SplitAt(text, sep) ==
  IF \A i \in 1..Len(text) : text[i] # sep THEN <<text>>
  ELSE LET i == CHOOSE j \in 1..Len(text) :
                    text[j] = sep /\ \A k \in 1..(j-1) : text[k] # sep
       IN <<SubSeq(text, 1, i-1)>> \o SplitAt(SubSeq(text, i+1, Len(text)), sep)

RECURSIVE Strip(_)
Strip(line) ==
  IF line = <<>> THEN line
  ELSE IF Head(line) = " " THEN Strip(Tail(line))
  ELSE IF line[Len(line)] = " " THEN Strip(SubSeq(line, 1, Len(line)-1))
  ELSE line

StartsWith(line, name) == Len(line) >= 1 /\ line[1] = name

RECURSIVE Cat(_)
Cat(toks) == IF toks = <<>> THEN "" ELSE Head(toks) \o Cat(Tail(toks))

RECURSIVE Join(_)
Join(lines) == IF lines = <<>> THEN <<>>
               ELSE IF Len(lines) = 1 THEN lines[1]
               ELSE lines[1] \o <<"\n">> \o Join(Tail(lines))

RECURSIVE Filter(_, _)
Filter(lines, name) ==
  IF lines = <<>> THEN <<>>
  ELSE IF StartsWith(Strip(Head(lines)), name)
       THEN <<Head(lines)>> \o Filter(Tail(lines), name)
       ELSE Filter(Tail(lines), name)

\* f.split("[")[1].split("]")[0]; "IndexError" when the line holds no "["
Bracketed(line) ==
  LET a == SplitAt(line, "[")
  IN IF Len(a) < 2 THEN [exc |-> "IndexError", val |-> ""]
     ELSE [exc |-> NoExc, val |-> Cat(SplitAt(a[2], "]")[1])]

(***************************************************************************)
(* The two lookups, as functions of the host's report.  A result is the    *)
(* exception raised (NoExc for a normal return) and the value returned.    *)
(***************************************************************************)
get_current_object_name(ii, name) ==
  IF ii.none THEN [exc |-> "RuntimeError", val |-> ""]
  ELSE LET ff == Filter(SplitAt(ii.text, "\n"), name)
       IN IF ff = <<>> THEN [exc |-> "IndexError", val |-> ""]
          ELSE Bracketed(ff[Len(ff)])

\* the "all objects" lookup raising when no line matches
get_all_object_name_bug(ii, name) ==
  IF ii.none THEN [exc |-> "RuntimeError", val |-> <<>>]
  ELSE LET ff == Filter(SplitAt(ii.text, "\n"), name)
       IN IF ff = <<>> THEN [exc |-> "RuntimeError", val |-> <<>>]
          ELSE [exc |-> NoExc, val |-> [i \in 1..Len(ff) |-> Bracketed(ff[i]).val]]

get_all_object_name(ii, name) ==
  IF ii.none THEN [exc |-> "RuntimeError", val |-> <<>>]
  ELSE LET ff == Filter(SplitAt(ii.text, "\n"), name)
           bb == [i \in 1..Len(ff) |-> Bracketed(ff[i])]
       IN IF \E i \in 1..Len(ff) : bb[i].exc # NoExc
          THEN [exc |-> "IndexError", val |-> <<>>]
          ELSE [exc |-> NoExc, val |-> [i \in 1..Len(ff) |-> bb[i].val]]

(***************************************************************************)
(* The host (pychips).  An object is                                       *)
(*   [kind, id, depth, cur, attr]                                          *)
(* with depth 0 for a window, 1 for a frame, 2 for a plot and 3 for what   *)
(* a plot holds; cur marks the current one among the siblings of its kind. *)
(* Identifiers are a stem and a number, unique among those siblings.       *)
(***************************************************************************)
Depth(kind) == CASE kind = "Window" -> 0 [] kind = "Frame" -> 1
                 [] kind = "Plot" -> 2 [] OTHER -> 3

ParentKind(kind) == CASE kind = "Frame" -> "Window" [] kind = "Plot" -> "Frame"
                      [] OTHER -> "Plot"

KindTokens(kind) == CASE kind = "XAxis" -> <<"X", " ", "Axis">>
                      [] kind = "YAxis" -> <<"Y", " ", "Axis">>
                      [] OTHER -> <<kind>>

Indent(d) == [i \in 1..(2*d) |-> " "]

\* one line of a status report: "<indent><TypeName> [<identifier>]"
Line(n) == Indent(n.depth) \o KindTokens(n.kind) \o <<" ", "[", n.id, "]">>

\* the index of the object that holds object i (0 for a window)
ParentIdx(o, i) ==
  IF o[i].depth = 0 THEN 0
  ELSE CHOOSE j \in 1..(i-1) :
         /\ o[j].depth = o[i].depth - 1
         /\ \A k \in (j+1)..(i-1) : o[k].depth >= o[i].depth

\* the last index of the subtree of object p
SubtreeEnd(o, p) ==
  CHOOSE e \in p..Len(o) :
    /\ \A k \in (p+1)..e : o[k].depth > o[p].depth
    /\ (e = Len(o) \/ o[e+1].depth <= o[p].depth)

\* object i is current, and so is everything that holds it
RECURSIVE OnChain(_, _)
OnChain(o, i) == o[i].cur /\ (o[i].depth = 0 \/ OnChain(o, ParentIdx(o, i)))

\* the index of the current object of a kind (0 when there is none)
CurIdx(o, kind) ==
  LET c == {i \in 1..Len(o) : o[i].kind = kind /\ OnChain(o, i)}
  IN IF c = {} THEN 0 ELSE CHOOSE i \in c : TRUE

IdAt(o, i) == IF i = 0 THEN "" ELSE o[i].id

\* the focused window, frame and plot ("" where there is none)
Focus(o) == <<IdAt(o, CurIdx(o, "Window")), IdAt(o, CurIdx(o, "Frame")),
              IdAt(o, CurIdx(o, "Plot"))>>

\* the objects of a kind held by object p (the windows, for p = 0)
Siblings(o, p, kind) ==
  {i \in 1..Len(o) : o[i].kind = kind /\ ParentIdx(o, i) = p}

\* the object of a kind with an identifier, among those of the current parent (0: none)
FindIdx(o, kind, id) ==
  LET p == IF kind = "Window" THEN 0 ELSE CurIdx(o, ParentKind(kind))
      c == IF kind # "Window" /\ p = 0 THEN {}
           ELSE {i \in Siblings(o, p, kind) : o[i].id = id}
  IN IF c = {} THEN 0 ELSE CHOOSE i \in c : TRUE

FreshId(stem, taken) ==
  stem \o ToString(CHOOSE n \in 1..(Cardinality(taken) + 1) :
                     /\ (stem \o ToString(n)) \notin taken
                     /\ \A m \in 1..(n-1) : (stem \o ToString(m)) \in taken)

\* info(): every object; None when the host holds nothing
info(o) == IF Len(o) = 0 THEN NoReport
           ELSE Text(Join([i \in 1..Len(o) |-> Line(o[i])]))

\* info_current(): the current objects only
RECURSIVE CurrentLines(_, _)
CurrentLines(o, i) ==
  IF i > Len(o) THEN <<>>
  ELSE (IF OnChain(o, i) THEN <<Line(o[i])>> ELSE <<>>) \o CurrentLines(o, i+1)

info_current(o) == IF Len(o) = 0 THEN NoReport
                   ELSE Text(Join(CurrentLines(o, 1)))

(***************************************************************************)
(* Host calls, on an execution record                                      *)
(*   [objs, undo, exc, self, loose, nest]                                  *)
(* exc is the exception in flight (NoExc: none); loose is set when a call  *)
(* changes the host with no undo block open, nest when a block is opened   *)
(* inside another.                                                         *)
(***************************************************************************)
Raise(S, e) == [S EXCEPT !.exc = e]

Touch(S, o) == [S EXCEPT !.objs = o, !.loose = S.loose \/ S.undo = 0]

open_undo_block(S) ==
  IF S.exc # NoExc THEN S
  ELSE [S EXCEPT !.undo = S.undo + 1, !.nest = S.nest \/ S.undo > 0]

close_undo_block(S) ==
  IF S.exc # NoExc THEN S
  ELSE IF S.undo = 0 THEN Raise(S, "HostError")
  ELSE [S EXCEPT !.undo = S.undo - 1]

\* add an object of a kind to the current parent; it becomes the current one
AddObj(S, kind, stem, attr) ==
  IF S.exc # NoExc THEN S
  ELSE
    LET o == S.objs
        p == IF kind = "Window" THEN 0 ELSE CurIdx(o, ParentKind(kind))
    IN IF kind # "Window" /\ p = 0 THEN Raise(S, "HostError")
       ELSE
         LET e    == IF p = 0 THEN Len(o) ELSE SubtreeEnd(o, p)
             sib  == Siblings(o, p, kind)
             new  == [kind |-> kind,
                      id |-> FreshId(stem, {o[i].id : i \in sib}),
                      depth |-> Depth(kind), cur |-> TRUE, attr |-> attr]
         IN Touch(S, [i \in 1..(Len(o) + 1) |->
                        IF i <= e THEN (IF i \in sib THEN [o[i] EXCEPT !.cur = FALSE]
                                        ELSE o[i])
                        ELSE IF i = e + 1 THEN new
                        ELSE o[i-1]])

\* set_current_window / set_current_frame / set_current_plot
SetCurrent(S, kind, id) ==
  IF S.exc # NoExc THEN S
  ELSE
    LET o == S.objs
        t == FindIdx(o, kind, id)
    IN IF t = 0 THEN Raise(S, "HostError")
       ELSE LET sib == Siblings(o, ParentIdx(o, t), kind)
            IN [S EXCEPT !.objs = [i \in 1..Len(o) |->
                                     IF i \in sib THEN [o[i] EXCEPT !.cur = (i = t)]
                                     ELSE o[i]]]

\* set_curve / set_point / set_label_text / hide_axis: change the attributes of
\* the object at index t (0: no such object)
SetAttr(S, t, attr) ==
  IF S.exc # NoExc THEN S
  ELSE IF t = 0 THEN Raise(S, "HostError")
  ELSE Touch(S, [S.objs EXCEPT ![t].attr = attr])

(***************************************************************************)
(* Attributes of the host's objects.                                       *)
(***************************************************************************)
StyleA == [line   |-> [style |-> "solid", color |-> "default"],
           symbol |-> [angle |-> 0, color |-> "default", fill |-> TRUE,
                       size |-> 5, style |-> "cross"]]
StyleB == [line   |-> [style |-> "dashed", color |-> "red"],
           symbol |-> [angle |-> 45, color |-> "red", fill |-> FALSE,
                       size |-> 3, style |-> "square"]]
StyleC == [line   |-> [style |-> "dot", color |-> "blue"],
           symbol |-> [angle |-> 90, color |-> "blue", fill |-> TRUE,
                       size |-> 7, style |-> "circle"]]
CurveStyles == {StyleA, StyleB, StyleC}

NoAttr == [none |-> TRUE]
DefaultFrame == [x0 |-> 0, y0 |-> 0, x1 |-> 1000, y1 |-> 1000, border |-> "none",
                 transparency |-> FALSE, scale |-> TRUE]
DefaultPlot == [margin |-> 150, style |-> "closed"]

\* get_curve(id): the line and symbol properties of a curve object
CurveProps(n) == [line |-> n.attr.line, symbol |-> n.attr.symbol]

(***************************************************************************)
(* Legend.  A method body is written as the list of its statements, run in *)
(* order on an execution record                                            *)
(*   [objs, undo, exc, self, loose, nest, old, cc]                         *)
(* (old and cc are the locals old_frame and cc); once a statement raises,  *)
(* the statements after it are skipped.                                    *)
(***************************************************************************)
NoLegend == [live |-> FALSE, reverse |-> FALSE,
             orig_win |-> "", orig_frm |-> "", orig_plot |-> "",
             usr_crvs |-> <<>>, lgnd |-> <<>>, frm |-> "",
             lgnd_crvs |-> <<>>, lgnd_pnts |-> <<>>, lgnd_lbls |-> <<>>]

Exec(o, u, me) == [objs |-> o, undo |-> u, exc |-> NoExc, self |-> me,
                   loose |-> FALSE, nest |-> FALSE, old |-> "", cc |-> StyleA]

Only(s) == CHOOSE x \in s : TRUE

CurName(S, kind) == get_current_object_name(info_current(S.objs), kind)
AllNames(S, kind) == get_all_object_name(info(S.objs), kind)

\* the transfer leaving out the angle
get_point_properties_bug(sym) ==
  [angle |-> 0, color |-> sym.color, fill |-> sym.fill,
   size |-> sym.size, style |-> sym.style]

\* Transfer a curve's symbol properties to a point
get_point_properties(sym) ==
  [angle |-> sym.angle, color |-> sym.color, fill |-> sym.fill,
   size |-> sym.size, style |-> sym.style]

\* the slot computed without regard to reverse
SlotBug(reverse, n, ii) == n - ii - 1

\* the vertical slot of entry ii (counted from 0) among n
Slot(reverse, n, ii) == IF reverse = FALSE THEN n - ii - 1 ELSE ii

\* the height of the overlay frame, in thousandths: min(len(self.lgnd)*0.075, 0.4)
FrameHeight(n) == Min(n * 75, 400)

\* the body of _draw's loop, for entry ii (counted from 0)
DrawBody(ii) ==
  << [op |-> "add_curve", ii |-> ii],
     [op |-> "self_append", field |-> "lgnd_crvs", kind |-> "Curve"],
     [op |-> "set_curve_none"],
     [op |-> "add_point", ii |-> ii],
     [op |-> "self_append", field |-> "lgnd_pnts", kind |-> "Point"],
     [op |-> "add_label", ii |-> ii],
     [op |-> "self_append", field |-> "lgnd_lbls", kind |-> "Label"] >>

\* the statements _draw's loop runs for entries ii .. n-1
RECURSIVE DrawBodies(_, _)
DrawBodies(ii, n) == IF ii >= n THEN <<>> ELSE DrawBody(ii) \o DrawBodies(ii + 1, n)

RECURSIVE Run(_, _)

\* one statement
Step(S, ins) ==
  CASE ins.op = "open_undo_block" -> open_undo_block(S)
    [] ins.op = "close_undo_block" -> close_undo_block(S)
    [] ins.op = "self_reverse" -> [S EXCEPT !.self.reverse = ins.v]
    \* self.<field> = self._get_current_object_name(<kind>)
    [] ins.op = "self_current" ->
         Only({IF r.exc # NoExc THEN Raise(S, r.exc)
               ELSE [S EXCEPT !.self[ins.field] = r.val] : r \in {CurName(S, ins.kind)}})
    \* self.<field> = self._get_all_object_name(<kind>)
    [] ins.op = "self_all" ->
         Only({IF r.exc # NoExc THEN Raise(S, r.exc)
               ELSE [S EXCEPT !.self[ins.field] = r.val] : r \in {AllNames(S, ins.kind)}})
    \* self.<field>.append( self._get_current_object_name(<kind>) )
    [] ins.op = "self_append" ->
         Only({IF r.exc # NoExc THEN Raise(S, r.exc)
               ELSE [S EXCEPT !.self[ins.field] = Append(S.self[ins.field], r.val)]
               : r \in {CurName(S, ins.kind)}})
    \* self.lgnd = [ get_curve(x) for x in self.usr_crvs ]
    [] ins.op = "self_lgnd" ->
         Only({IF \E i \in 1..Len(at) : at[i] = 0 THEN Raise(S, "HostError")
               ELSE [S EXCEPT !.self.lgnd = [i \in 1..Len(at) |-> CurveProps(S.objs[at[i]])]]
               : at \in {[i \in 1..Len(S.self.usr_crvs) |->
                            FindIdx(S.objs, "Curve", S.self.usr_crvs[i])]}})
    \* add_frame( 0.5, 0.9-ncrv, 0.9, 0.9, frm )
    [] ins.op = "add_frame" ->
         AddObj(S, "Frame", "Legend",
                [x0 |-> 500, y0 |-> 900 - FrameHeight(Len(S.self.lgnd)),
                 x1 |-> 900, y1 |-> 900,
                 border |-> "red", transparency |-> TRUE, scale |-> FALSE])
    [] ins.op = "add_plot" -> AddObj(S, "Plot", "plot", [margin |-> 10, style |-> "open"])
    \* add_axis( X_AXIS, 0, 0, 3, ax ) and add_axis( Y_AXIS, 0, -1, len(self.lgnd), ax )
    [] ins.op = "add_axis" ->
         IF ins.kind = "XAxis"
         THEN AddObj(S, "XAxis", "ax", [lo |-> 0, hi |-> 3, visible |-> TRUE])
         ELSE AddObj(S, "YAxis", "ay", [lo |-> -1, hi |-> Len(S.self.lgnd), visible |-> TRUE])
    \* hide_axis(): the axis just added is the current one
    [] ins.op = "hide_axis" ->
         Only({IF t = 0 THEN Raise(S, "HostError")
               ELSE SetAttr(S, t, [S.objs[t].attr EXCEPT !.visible = FALSE])
               : t \in {CurIdx(S.objs, ins.kind)}})
    \* add_region( [0,3,3,0], [-1, -1, len(self.lgnd),len(self.lgnd)], bg)
    [] ins.op = "add_region" ->
         AddObj(S, "Region", "rgn",
                [xs |-> <<0, 3, 3, 0>>,
                 ys |-> <<-1, -1, Len(S.self.lgnd), Len(S.self.lgnd)>>,
                 edge |-> "forest", fill |-> "forest", fillstyle |-> "solid",
                 opacity |-> 50])
    [] ins.op = "self_lists" ->
         [S EXCEPT !.self.lgnd_crvs = <<>>, !.self.lgnd_pnts = <<>>,
                   !.self.lgnd_lbls = <<>>]
    \* for ii,ll in enumerate(self.lgnd)
    [] ins.op = "draw_loop" -> Run(S, DrawBodies(0, Len(S.self.lgnd)))
    \* add_curve( [0.25,1], [yy,yy], self.lgnd[ii] )
    [] ins.op = "add_curve" ->
         AddObj(S, "Curve", "crv",
                [line |-> S.self.lgnd[ins.ii + 1].line,
                 symbol |-> S.self.lgnd[ins.ii + 1].symbol,
                 y |-> Slot(S.self.reverse, Len(S.self.lgnd), ins.ii)])
    \* set_curve("symbol.style=none"): the current curve
    [] ins.op = "set_curve_none" ->
         Only({IF t = 0 THEN Raise(S, "HostError")
               ELSE SetAttr(S, t, [S.objs[t].attr EXCEPT !.symbol.style = "none"])
               : t \in {CurIdx(S.objs, "Curve")}})
    \* add_point( 0.625, yy, self._get_point_properties( self.lgnd[ii].symbol ) )
    [] ins.op = "add_point" ->
         AddObj(S, "Point", "pnt",
                [p |-> get_point_properties(S.self.lgnd[ins.ii + 1].symbol),
                 y |-> Slot(S.self.reverse, Len(S.self.lgnd), ins.ii)])
    \* add_label( 1.25, yy, str(ii), "valign=0.5" )
    [] ins.op = "add_label" ->
         AddObj(S, "Label", "lbl",
                [text |-> Str(ins.ii),
                 y |-> Slot(S.self.reverse, Len(S.self.lgnd), ins.ii)])
    \* set_current_window/frame/plot( self.<field> )
    [] ins.op = "set_current" -> SetCurrent(S, ins.kind, S.self[ins.field])
    \* old_frame = self._get_current_object_name("Frame")
    [] ins.op = "old_frame" ->
         Only({IF r.exc # NoExc THEN Raise(S, r.exc) ELSE [S EXCEPT !.old = r.val]
               : r \in {CurName(S, "Frame")}})
    \* set_current_frame( old_frame )
    [] ins.op = "set_current_old" -> SetCurrent(S, "Frame", S.old)
    \* set_label_text( lbid, lbl )
    [] ins.op = "set_label_text" ->
         Only({IF t = 0 THEN Raise(S, "HostError")
               ELSE SetAttr(S, t, [S.objs[t].attr EXCEPT !.text = ins.lbl])
               : t \in {FindIdx(S.objs, "Label", ins.lbid)}})
    \* cc = get_curve( usr )
    [] ins.op = "get_curve" ->
         Only({IF t = 0 THEN Raise(S, "HostError")
               ELSE [S EXCEPT !.cc = CurveProps(S.objs[t])]
               : t \in {FindIdx(S.objs, "Curve", ins.usr)}})
    \* set_curve( lgn, cc )
    [] ins.op = "set_curve" ->
         Only({IF t = 0 THEN Raise(S, "HostError")
               ELSE SetAttr(S, t, [S.objs[t].attr EXCEPT !.line = S.cc.line,
                                                         !.symbol = S.cc.symbol])
               : t \in {FindIdx(S.objs, "Curve", ins.lgn)}})
    \* set_curve( lgn, "symbol.style=none")
    [] ins.op = "set_curve_id_none" ->
         Only({IF t = 0 THEN Raise(S, "HostError")
               ELSE SetAttr(S, t, [S.objs[t].attr EXCEPT !.symbol.style = "none"])
               : t \in {FindIdx(S.objs, "Curve", ins.lgn)}})
    \* set_point( lpt, self._get_point_properties( cc.symbol ) )
    [] ins.op = "set_point" ->
         Only({IF t = 0 THEN Raise(S, "HostError")
               ELSE SetAttr(S, t, [S.objs[t].attr EXCEPT
                                     !.p = get_point_properties(S.cc.symbol)])
               : t \in {FindIdx(S.objs, "Point", ins.lpt)}})

\* the statements of prog in order: the first half, then the second
Run(S, prog) ==
  IF prog = <<>> \/ S.exc # NoExc THEN S
  ELSE IF Len(prog) = 1 THEN Step(S, prog[1])
  ELSE Only({Run(T, SubSeq(prog, (Len(prog) \div 2) + 1, Len(prog)))
             : T \in {Run(S, SubSeq(prog, 1, Len(prog) \div 2))}})

get_current_curves ==
  << [op |-> "self_current", field |-> "orig_win", kind |-> "Window"],
     [op |-> "self_current", field |-> "orig_frm", kind |-> "Frame"],
     [op |-> "self_current", field |-> "orig_plot", kind |-> "Plot"],
     [op |-> "self_all", field |-> "usr_crvs", kind |-> "Curve"],
     [op |-> "self_lgnd"] >>

make_frame ==
  << [op |-> "add_frame"],
     [op |-> "self_current", field |-> "frm", kind |-> "Frame"] >>

make_drawing_area ==
  << [op |-> "add_plot"],
     [op |-> "add_axis", kind |-> "XAxis"], [op |-> "hide_axis", kind |-> "XAxis"],
     [op |-> "add_axis", kind |-> "YAxis"], [op |-> "hide_axis", kind |-> "YAxis"] >>

background == << [op |-> "add_region"] >>

draw == << [op |-> "self_lists"], [op |-> "draw_loop"] >>

\* the checks with "at least one window" for "one and only one window"
PreconditionBug(o) ==
  LET w == get_all_object_name(info(o), "Window")
      f == get_all_object_name(info(o), "Frame")
      p == get_all_object_name(info(o), "Plot")
      c == get_all_object_name(info(o), "Curve")
  IN IF w.exc # NoExc THEN w.exc
     ELSE IF Len(w.val) < 1 THEN "NotImplementedError"
     ELSE IF Len(f.val) # 1 THEN "NotImplementedError"
     ELSE IF Len(p.val) # 1 THEN "NotImplementedError"
     ELSE IF Len(c.val) = 0 THEN "NotImplementedError"
     ELSE NoExc

\* the four checks at the head of __init__: the exception raised, or NoExc
Precondition(o) ==
  LET ii == info(o)
  IN Only({IF w.exc # NoExc THEN w.exc
           ELSE IF Len(w.val) # 1 THEN "NotImplementedError"
           ELSE Only({IF f.exc # NoExc THEN f.exc
                      ELSE IF Len(f.val) # 1 THEN "NotImplementedError"
                      ELSE Only({IF p.exc # NoExc THEN p.exc
                                 ELSE IF Len(p.val) # 1 THEN "NotImplementedError"
                                 ELSE Only({IF c.exc # NoExc THEN c.exc
                                            ELSE IF Len(c.val) = 0 THEN "NotImplementedError"
                                            ELSE NoExc
                                            : c \in {get_all_object_name(ii, "Curve")}})
                                 : p \in {get_all_object_name(ii, "Plot")}})
                      : f \in {get_all_object_name(ii, "Frame")}})
           : w \in {get_all_object_name(ii, "Window")}})

\* the warning printed for a large number of curves
Warns(o) ==
  Precondition(o) = NoExc /\ Len(get_all_object_name(info(o), "Curve").val) >= 7

\* Legend.__init__(reverse)
init(S, reverse) ==
  Only({IF pre # NoExc THEN Raise(S, pre)
        ELSE Only({IF T.exc # NoExc THEN T ELSE [T EXCEPT !.self.live = TRUE]
                   : T \in {Run([S EXCEPT !.self = NoLegend],
                                << [op |-> "open_undo_block"],
                                   [op |-> "self_reverse", v |-> reverse] >>
                                \o get_current_curves
                                \o make_frame
                                \o make_drawing_area
                                \o background
                                \o draw
                                \o << [op |-> "set_current", kind |-> "Window", field |-> "orig_win"],
                                      [op |-> "set_current", kind |-> "Frame", field |-> "orig_frm"],
                                      [op |-> "set_current", kind |-> "Plot", field |-> "orig_plot"],
                                      [op |-> "close_undo_block"] >>)}})
        : pre \in {Precondition(S.objs)}})

\* label() refusing only a sequence that is too long
label_bug(S, label_vals) ==
  IF Len(label_vals) > Len(S.self.lgnd_lbls) THEN Raise(S, "RuntimeError")
  ELSE Run(S, << [op |-> "open_undo_block"],
                 [op |-> "old_frame"],
                 [op |-> "set_current", kind |-> "Frame", field |-> "frm"] >>
              \o [i \in 1..Min(Len(S.self.lgnd_lbls), Len(label_vals)) |->
                    [op |-> "set_label_text", lbid |-> S.self.lgnd_lbls[i],
                     lbl |-> label_vals[i]]]
              \o << [op |-> "set_current_old"],
                    [op |-> "close_undo_block"] >>)

\* Legend.label(label_vals)
label(S, label_vals) ==
  IF Len(label_vals) # Len(S.self.lgnd_lbls) THEN Raise(S, "RuntimeError")
  ELSE Run(S, << [op |-> "open_undo_block"],
                 [op |-> "old_frame"],
                 [op |-> "set_current", kind |-> "Frame", field |-> "frm"] >>
              \o [i \in 1..Min(Len(S.self.lgnd_lbls), Len(label_vals)) |->
                    [op |-> "set_label_text", lbid |-> S.self.lgnd_lbls[i],
                     lbl |-> label_vals[i]]]
              \o << [op |-> "set_current_old"],
                    [op |-> "close_undo_block"] >>)

\* the body of update's loop, for entry i (counted from 1)
UpdateBody(me, i) ==
  << [op |-> "set_current", kind |-> "Window", field |-> "orig_win"],
     [op |-> "set_current", kind |-> "Frame", field |-> "orig_frm"],
     [op |-> "set_current", kind |-> "Plot", field |-> "orig_plot"],
     [op |-> "get_curve", usr |-> me.usr_crvs[i]],
     [op |-> "set_current", kind |-> "Frame", field |-> "frm"],
     [op |-> "set_curve", lgn |-> me.lgnd_crvs[i]],
     [op |-> "set_curve_id_none", lgn |-> me.lgnd_crvs[i]],
     [op |-> "set_point", lpt |-> me.lgnd_pnts[i]] >>

RECURSIVE UpdateBodies(_, _, _)
UpdateBodies(me, i, n) ==
  IF i > n THEN <<>> ELSE UpdateBody(me, i) \o UpdateBodies(me, i + 1, n)

\* Legend.update()
update(S) ==
  Run(S, << [op |-> "open_undo_block"],
            [op |-> "old_frame"] >>
         \o UpdateBodies(S.self, 1, Min(Len(S.self.usr_crvs),
                                        Min(Len(S.self.lgnd_crvs), Len(S.self.lgnd_pnts))))
         \o << [op |-> "set_current_old"],
               [op |-> "close_undo_block"] >>)

\* Legend.move(), up to the first get_pick()
move_enter(S) ==
  Run(S, << [op |-> "open_undo_block"],
            [op |-> "old_frame"],
            [op |-> "set_current", kind |-> "Frame", field |-> "frm"] >>)

\* move_frame( cid, x, y, 1 ) with a default ChipsId: the current frame is the
\* one to move.  Where the host puts the frame is the host's own matter and is
\* not kept; the host may refuse.
move_frame(S, x, y, accept) ==
  IF CurIdx(S.objs, "Frame") = 0 \/ ~accept THEN Raise(S, "HostError")
  ELSE Touch(S, S.objs)

\* my_move_frame(x, y): the request made (of which frame, by how much), and the
\* exception swallowed
my_move_frame(S, x, y, accept) ==
  Only({[ex |-> [S1 EXCEPT !.exc = NoExc],
         reqs |-> <<[frame |-> <<Focus(S.objs)[1], Focus(S.objs)[2]>>, x |-> x, y |-> y]>>,
         refused |-> S1.exc # NoExc]
        : S1 \in {move_frame(S, x, y, accept)}})

Stay(S) == [ex |-> S, reqs |-> <<>>, refused |-> FALSE]

\* one turn of move's loop for the key read; quit tells whether the loop ends
move_key(S, keyval, accept) ==
  LET k == Lower(keyval)
  IN IF k = "w" THEN [quit |-> FALSE, r |-> my_move_frame(S, 0, 5, accept)]
     ELSE IF k = "s" THEN [quit |-> FALSE, r |-> my_move_frame(S, 0, -5, accept)]
     ELSE IF k = "a" THEN [quit |-> FALSE, r |-> my_move_frame(S, -5, 0, accept)]
     ELSE IF k = "d" THEN [quit |-> FALSE, r |-> my_move_frame(S, 5, 0, accept)]
     ELSE IF k = "q" THEN [quit |-> TRUE, r |-> Stay(S)]
     ELSE [quit |-> FALSE, r |-> Stay(S)]

\* Legend.move(), after the loop
move_leave(S) ==
  Run(S, << [op |-> "set_current_old"], [op |-> "close_undo_block"] >>)

(***************************************************************************)
(* What an observer of the host sees.                                      *)
(***************************************************************************)
Count(o, kind) == Cardinality({i \in 1..Len(o) : o[i].kind = kind})

\* the object of a kind and identifier in a plot of frame frm of window win
\* (any plot of the frame when plot is ""); 0 when there is none
Under(o, win, frm, plot, kind, id) ==
  LET c == {i \in 1..Len(o) :
              /\ o[i].kind = kind /\ o[i].id = id /\ o[i].depth = 3
              /\ LET pl == ParentIdx(o, i)
                     fr == ParentIdx(o, pl)
                     wi == ParentIdx(o, fr)
                 IN o[wi].id = win /\ o[fr].id = frm /\ (plot = "" \/ o[pl].id = plot)}
  IN IF c = {} THEN 0 ELSE CHOOSE i \in c : TRUE

Overlay(o, me, kind, id) == Under(o, me.orig_win, me.frm, "", kind, id)
Source(o, me, id) == Under(o, me.orig_win, me.orig_frm, me.orig_plot, "Curve", id)

OverlayTexts(o, me) ==
  [i \in 1..Len(me.lgnd_lbls) |-> o[Overlay(o, me, "Label", me.lgnd_lbls[i])].attr.text]

SourceStyles(o, me) ==
  [i \in 1..Len(me.usr_crvs) |-> CurveProps(o[Source(o, me, me.usr_crvs[i])])]

\* the focused frame is the overlay frame
InOverlay(o, me) == me.live /\ Focus(o)[1] = me.orig_win /\ Focus(o)[2] = me.frm

(***************************************************************************)
(* The record of the last public call.                                     *)
(***************************************************************************)
Before == [focus |-> Focus(objs), undo |-> undo,
           texts |-> OverlayTexts(objs, self), styles |-> SourceStyles(objs, self),
           nwin |-> Count(objs, "Window"), nfrm |-> Count(objs, "Frame"),
           nplot |-> Count(objs, "Plot"), ncrv |-> Count(objs, "Curve")]

NoCall == [op |-> "none", arg |-> <<>>, done |-> TRUE,
           exc |-> NoExc, warn |-> FALSE, loose |-> FALSE, nest |-> FALSE,
           pre |-> [focus |-> <<"", "", "">>, undo |-> 0, texts |-> <<>>,
                    styles |-> <<>>, nwin |-> 0, nfrm |-> 0, nplot |-> 0, ncrv |-> 0]]

Called(op, arg, S, done) ==
  [NoCall EXCEPT !.op = op, !.arg = arg, !.done = done, !.exc = S.exc,
                 !.loose = S.loose, !.nest = S.nest, !.pre = Before]

NoMoved == [reqs |-> <<>>, refused |-> FALSE]

(***************************************************************************)
(* Inputs.                                                                 *)
(***************************************************************************)
Keys == {"w", "W", "s", "S", "a", "A", "d", "D", "q", "Q", "x"}

Names == <<<<"a">>, <<"b", "c">>, <<"0">>>>

\* the sequences handed to label(): one entry too few, one too many, and the
\* right number in two fillings
LabelInputs(n) ==
  {[i \in 1..len |-> Names[(i % 3) + 1]] : len \in {n - 1, n + 1} \cap Nat}
  \cup {[i \in 1..n |-> Names[((i + shift) % 3) + 1]] : shift \in 0..1}

(***************************************************************************)
(* The public calls.                                                       *)
(***************************************************************************)
Start == Exec(objs, undo, self)

Construct ==
  /\ pc = "idle" /\ undo < MaxUndo
  /\ \E reverse \in BOOLEAN : \E S \in {init(Start, reverse)} :
       /\ objs' = S.objs
       /\ undo' = S.undo
       /\ self' = IF S.exc = NoExc THEN S.self ELSE self
       /\ call' = [Called("construct", <<>>, S, TRUE) EXCEPT !.warn = Warns(objs)]
  /\ key' = "" /\ moved' = NoMoved
  /\ UNCHANGED <<pc, old_frame, used, report, tag, out>>

Label ==
  /\ pc = "idle" /\ undo < MaxUndo /\ self.live
  /\ \E vals \in LabelInputs(Len(self.lgnd_lbls)) : \E S \in {label(Start, vals)} :
       /\ objs' = S.objs
       /\ undo' = S.undo
       /\ call' = Called("label", vals, S, TRUE)
  /\ key' = "" /\ moved' = NoMoved
  /\ UNCHANGED <<self, pc, old_frame, used, report, tag, out>>

Update ==
  /\ pc = "idle" /\ undo < MaxUndo /\ self.live
  /\ \E S \in {update(Start)} :
       /\ objs' = S.objs
       /\ undo' = S.undo
       /\ call' = Called("update", <<>>, S, TRUE)
  /\ key' = "" /\ moved' = NoMoved
  /\ UNCHANGED <<self, pc, old_frame, used, report, tag, out>>

\* move() from its call to the first get_pick(), or to the exception that ends it
MoveBegin ==
  /\ pc = "idle" /\ undo < MaxUndo /\ self.live
  /\ \E S \in {move_enter(Start)} :
       /\ objs' = S.objs
       /\ undo' = S.undo
       /\ pc' = IF S.exc = NoExc THEN "move" ELSE "idle"
       /\ old_frame' = IF S.exc = NoExc THEN S.old ELSE ""
       /\ call' = Called("move", <<>>, S, S.exc # NoExc)
  /\ key' = "" /\ moved' = NoMoved
  /\ UNCHANGED <<self, used, report, tag, out>>

\* move() from one get_pick() to the next, or to its return
MoveKey ==
  /\ pc = "move"
  /\ \E k \in Keys, accept \in BOOLEAN :
       \E t \in {move_key([Start EXCEPT !.old = old_frame, !.loose = call.loose,
                                        !.nest = call.nest], k, accept)} :
         \E E \in {IF t.quit THEN move_leave(t.r.ex) ELSE t.r.ex} :
           /\ objs' = E.objs
           /\ undo' = E.undo
           /\ pc' = IF t.quit THEN "idle" ELSE "move"
           /\ old_frame' = IF t.quit THEN "" ELSE old_frame
           /\ key' = k
           /\ moved' = [reqs |-> t.r.reqs, refused |-> t.r.refused]
           /\ call' = [call EXCEPT !.done = t.quit, !.exc = E.exc,
                                   !.loose = E.loose, !.nest = E.nest]
  /\ UNCHANGED <<self, used, report, tag, out>>

(***************************************************************************)
(* The user at the host's prompt, between the public calls.  The user      *)
(* adds nothing to the overlay frame.                                      *)
(***************************************************************************)
UserDoes(S) ==
  /\ S.exc = NoExc
  /\ objs' = S.objs
  /\ call' = NoCall /\ key' = "" /\ moved' = NoMoved
  /\ UNCHANGED <<undo, self, pc, old_frame, report, tag, out>>

UserAdds(S) == used < MaxUser /\ UserDoes(S) /\ used' = used + 1

UserAddWindow ==
  /\ pc = "idle"
  /\ UserAdds(AddObj(Start, "Window", "win", NoAttr))

UserAddFrame ==
  /\ pc = "idle" /\ CurIdx(objs, "Window") # 0
  /\ UserAdds(AddObj(Start, "Frame", "frm", DefaultFrame))

UserAddPlot ==
  /\ pc = "idle" /\ CurIdx(objs, "Frame") # 0 /\ ~InOverlay(objs, self)
  /\ UserAdds(AddObj(Start, "Plot", "plot", DefaultPlot))

UserAddCurve ==
  /\ pc = "idle" /\ CurIdx(objs, "Plot") # 0 /\ ~InOverlay(objs, self)
  /\ UserAdds(AddObj(Start, "Curve", "crv",
                     [line |-> StyleA.line, symbol |-> StyleA.symbol, y |-> 0]))

UserSetCurve ==
  /\ pc = "idle" /\ CurIdx(objs, "Plot") # 0 /\ ~InOverlay(objs, self)
  /\ \E i \in Siblings(objs, CurIdx(objs, "Plot"), "Curve"), s \in CurveStyles :
       /\ CurveProps(objs[i]) # s
       /\ UserAdds(SetAttr(Start, i, [objs[i].attr EXCEPT !.line = s.line,
                                                           !.symbol = s.symbol]))

UserFocus ==
  /\ pc = "idle"
  /\ \E i \in 1..Len(objs) :
       /\ objs[i].kind \in {"Window", "Frame", "Plot"}
       /\ ~objs[i].cur
       /\ FindIdx(objs, objs[i].kind, objs[i].id) = i
       /\ UserDoes(SetCurrent(Start, objs[i].kind, objs[i].id))
  /\ UNCHANGED used

(***************************************************************************)
(* The lookups on their own, on reports drawn from a small set.            *)
(***************************************************************************)
SampleLines ==
  { Line([kind |-> "Window", id |-> "win1", depth |-> 0]),
    Line([kind |-> "Frame", id |-> "frm1", depth |-> 1]),
    Line([kind |-> "Curve", id |-> "crv1", depth |-> 3]),
    Line([kind |-> "Curve", id |-> "crv2", depth |-> 3]),
    Line([kind |-> "XAxis", id |-> "ax1", depth |-> 3]),
    <<>>,
    <<" ", "Curve">> }

Tags == {"Window", "Curve", "Plot", "Axis"}

Reports ==
  {NoReport} \cup
  {Text(Join(ls)) : ls \in UNION {[1..n -> SampleLines] : n \in 0..MaxLines}}

NoOut == [which |-> "none", exc |-> NoExc, name |-> "", names |-> <<>>]

LookupCurrent ==
  /\ out.which = "none"
  /\ LET r == get_current_object_name(report, tag)
     IN out' = [which |-> "current", exc |-> r.exc, name |-> r.val, names |-> <<>>]
  /\ UNCHANGED <<objs, undo, self, pc, old_frame, key, moved, call, used, report, tag>>

LookupAll ==
  /\ out.which = "none"
  /\ LET r == get_all_object_name(report, tag)
     IN out' = [which |-> "all", exc |-> r.exc, name |-> "", names |-> r.val]
  /\ UNCHANGED <<objs, undo, self, pc, old_frame, key, moved, call, used, report, tag>>

(***************************************************************************)
(* The specifications.                                                     *)
(***************************************************************************)
NoSession ==
  /\ undo = 0 /\ self = NoLegend /\ pc = "idle" /\ old_frame = ""
  /\ key = "" /\ moved = NoMoved /\ call = NoCall /\ used = 0

NoLookup == report = NoReport /\ tag = "" /\ out = NoOut

\* A session that starts with an empty host; the user builds the plot, and
\* goes on working at the host between the calls of construct, label and update.
Init == objs = <<>> /\ NoSession /\ NoLookup

Next == \/ Construct \/ Label \/ Update
        \/ UserAddWindow \/ UserAddFrame \/ UserAddPlot \/ UserAddCurve
        \/ UserSetCurve \/ UserFocus

Spec == Init /\ [][Next]_vars

\* A session that starts with one window, one frame and one plot of n curves
\* in assorted styles, as the class's docstring has it; the user only moves
\* the focus between the calls, which here include move().
RECURSIVE Plotted(_, _, _)
Plotted(S, n, shift) ==
  IF n = 0 THEN S
  ELSE LET T == Plotted(S, n - 1, shift)
           s == CASE (n + shift) % 3 = 0 -> StyleA [] (n + shift) % 3 = 1 -> StyleB
                  [] OTHER -> StyleC
       IN AddObj(T, "Curve", "crv", [line |-> s.line, symbol |-> s.symbol, y |-> 0])

OnePlot == AddObj(AddObj(AddObj(Exec(<<>>, 0, NoLegend), "Window", "win", NoAttr),
                         "Frame", "frm", DefaultFrame),
                  "Plot", "plot", DefaultPlot)

InitDraw ==
  /\ \E n \in 1..MaxCurves, shift \in 0..2 : objs = Plotted(OnePlot, n, shift).objs
  /\ NoSession /\ NoLookup

NextDraw == Construct \/ Label \/ Update \/ MoveBegin \/ MoveKey \/ UserFocus

SpecDraw == InitDraw /\ [][NextDraw]_vars

InitLookup == objs = <<>> /\ NoSession /\ report \in Reports /\ tag \in Tags /\ out = NoOut

NextLookup == LookupCurrent \/ LookupAll

SpecLookup == InitLookup /\ [][NextLookup]_vars
(***************************************************************************)
(* Properties.                                                             *)
(***************************************************************************)
N == Len(self.usr_crvs)

DigitChars == <<"0", "1", "2", "3", "4", "5", "6", "7", "8", "9">>

\* the number a string of decimal digits writes (-1 when it is no such string)
RECURSIVE DecimalValue(_)
DecimalValue(t) ==
  IF t = <<>> THEN -1
  ELSE IF \A k \in 1..10 : DigitChars[k] # t[Len(t)] THEN -1
  ELSE LET d == (CHOOSE k \in 1..10 : DigitChars[k] = t[Len(t)]) - 1
       IN IF Len(t) = 1 THEN d
          ELSE IF DecimalValue(SubSeq(t, 1, Len(t) - 1)) <= 0 THEN -1
          ELSE DecimalValue(SubSeq(t, 1, Len(t) - 1)) * 10 + d

\* the identifiers of the objects of a kind in the overlay frame, in report order
RECURSIVE IdsFrom(_, _, _)
IdsFrom(o, kind, i) ==
  IF i > Len(o) THEN <<>>
  ELSE (IF o[i].kind = kind /\ Overlay(o, self, kind, o[i].id) = i THEN <<o[i].id>> ELSE <<>>)
       \o IdsFrom(o, kind, i + 1)

OverlayAttr(kind, id) == objs[Overlay(objs, self, kind, id)].attr

\* C1: with 1 <= N <= 6 curves in the single window, frame and plot, construction
\* succeeds and records N overlay curve, N overlay point and N overlay label
\* identifiers, each naming an object of the overlay, and the text of overlay
\* label i is the decimal string of i, for i = 0..N-1.
C1_Construct ==
  (/\ call.op = "construct"
   /\ call.pre.nwin = 1 /\ call.pre.nfrm = 1 /\ call.pre.nplot = 1
   /\ call.pre.ncrv >= 1 /\ call.pre.ncrv <= 6)
  => /\ call.exc = NoExc /\ self.live
     /\ Len(self.lgnd_crvs) = call.pre.ncrv
     /\ Len(self.lgnd_pnts) = call.pre.ncrv
     /\ Len(self.lgnd_lbls) = call.pre.ncrv
     /\ \A i \in 0..(call.pre.ncrv - 1) :
          /\ Overlay(objs, self, "Curve", self.lgnd_crvs[i + 1]) # 0
          /\ Overlay(objs, self, "Point", self.lgnd_pnts[i + 1]) # 0
          /\ Overlay(objs, self, "Label", self.lgnd_lbls[i + 1]) # 0
          /\ DecimalValue(OverlayAttr("Label", self.lgnd_lbls[i + 1]).text) = i
     /\ \A i, j \in 1..call.pre.ncrv :
          i # j => /\ self.lgnd_crvs[i] # self.lgnd_crvs[j]
                   /\ self.lgnd_pnts[i] # self.lgnd_pnts[j]
                   /\ self.lgnd_lbls[i] # self.lgnd_lbls[j]

C1_Witness ==
  call.op = "construct" /\ call.exc = NoExc /\ call.pre.ncrv = 6 /\ self.live
  /\ Len(self.lgnd_lbls) = 6

C3_Focus ==
  (call.op # "none" /\ call.done /\ call.exc = NoExc) => Focus(objs) = call.pre.focus

\* C4: after update() completes, the line of overlay curve i and the symbol of
\* overlay point i are those source curve i had when update() was called, and
\* no label text has changed.
C4_Update ==
  (call.op = "update" /\ call.exc = NoExc)
  => /\ \A i \in 1..N :
          /\ OverlayAttr("Curve", self.lgnd_crvs[i]).line = call.pre.styles[i].line
          /\ OverlayAttr("Point", self.lgnd_pnts[i]).p.angle = call.pre.styles[i].symbol.angle
          /\ OverlayAttr("Point", self.lgnd_pnts[i]).p.color = call.pre.styles[i].symbol.color
          /\ OverlayAttr("Point", self.lgnd_pnts[i]).p.fill = call.pre.styles[i].symbol.fill
          /\ OverlayAttr("Point", self.lgnd_pnts[i]).p.size = call.pre.styles[i].symbol.size
          /\ OverlayAttr("Point", self.lgnd_pnts[i]).p.style = call.pre.styles[i].symbol.style
     /\ OverlayTexts(objs, self) = call.pre.texts

C4_Witness ==
  /\ call.op = "update" /\ call.exc = NoExc
  /\ \E i \in 1..N : call.pre.styles[i] # self.lgnd[i]

\* C5: every public call changes the host only inside one undo block of its
\* own, never nested, and whenever no public call is in progress, however the
\* last one ended, no undo block is open.
C5_Undo ==
  /\ call.op # "none" => ~call.loose /\ ~call.nest
  /\ pc = "idle" => undo = 0

\* C6: label() with a sequence whose length is not N fails with the
\* count-mismatch error (RuntimeError); the label texts, the open undo blocks and
\* the focus are what they were before the call.
C6_Mismatch ==
  (call.op = "label" /\ Len(call.arg) # N)
  => /\ call.exc = "RuntimeError"
     /\ OverlayTexts(objs, self) = call.pre.texts
     /\ undo = call.pre.undo /\ ~call.nest /\ ~call.loose
     /\ Focus(objs) = call.pre.focus

C6_Witness ==
  /\ call.op = "label" /\ Len(call.arg) = N + 1 /\ call.exc = "RuntimeError"
  /\ \E i \in 1..N : call.pre.texts[i] # call.arg[i]

\* C7: label() with a sequence of length exactly N sets the text of overlay
\* label i to the i-th string, for every i.
C7_Relabel ==
  (call.op = "label" /\ Len(call.arg) = N)
  => \A i \in 1..N : OverlayTexts(objs, self)[i] = call.arg[i]

\* C8: once constructed, the three identifier sequences have the length of the
\* captured curve sequence and name, in order, the curves, points and labels of
\* the overlay (so they never change, whatever update() and label() do), the
\* captured sequence names the curves of the source plot in order, and entry i
\* (from 0) sits in slot N-1-i, or in slot i when reversed.
C8_Entries ==
  self.live =>
    /\ Len(self.lgnd_crvs) = N /\ Len(self.lgnd_pnts) = N /\ Len(self.lgnd_lbls) = N
    /\ Len(self.lgnd) = N
    /\ self.lgnd_crvs = IdsFrom(objs, "Curve", 1)
    /\ self.lgnd_pnts = IdsFrom(objs, "Point", 1)
    /\ self.lgnd_lbls = IdsFrom(objs, "Label", 1)
    /\ \A i \in 1..N : Source(objs, self, self.usr_crvs[i]) # 0
    /\ \A i, j \in 1..N :
         i < j => Source(objs, self, self.usr_crvs[i]) < Source(objs, self, self.usr_crvs[j])
    /\ \A i \in 0..(N - 1) :
         LET slot == IF self.reverse THEN i ELSE N - 1 - i
         IN /\ OverlayAttr("Curve", self.lgnd_crvs[i + 1]).y = slot
            /\ OverlayAttr("Point", self.lgnd_pnts[i + 1]).y = slot
            /\ OverlayAttr("Label", self.lgnd_lbls[i + 1]).y = slot
    /\ (call.op \in {"construct", "update"} /\ call.exc = NoExc) =>
         \A i \in 1..N :
           OverlayAttr("Curve", self.lgnd_crvs[i]).line = SourceStyles(objs, self)[i].line

C8_Witness ==
  /\ self.live /\ self.reverse /\ N >= 2
  /\ call.op = "label" /\ call.exc = NoExc
  /\ OverlayTexts(objs, self) = call.arg

\* C9: while move() runs, a key other than q/Q never ends the loop, and w, s, a,
\* d (in either case) each request exactly one translation of the overlay frame,
\* by (0,5), (0,-5), (-5,0), (5,0); any other key requests none; a refused
\* translation leaves the loop running; the first q/Q ends move() at once.
WantedMove(k) ==
  LET to == [frame |-> <<self.orig_win, self.frm>>, x |-> 0, y |-> 0]
  IN CASE k \in {"w", "W"} -> <<[to EXCEPT !.y = 5]>>
       [] k \in {"s", "S"} -> <<[to EXCEPT !.y = -5]>>
       [] k \in {"a", "A"} -> <<[to EXCEPT !.x = -5]>>
       [] k \in {"d", "D"} -> <<[to EXCEPT !.x = 5]>>
       [] OTHER -> <<>>

Matches(text, name) ==
  \E i \in 1..Len(text) :
    /\ text[i] = name
    /\ \E j \in 0..(i - 1) :
         /\ (j = 0 \/ text[j] = "\n")
         /\ \A k \in (j + 1)..(i - 1) : text[k] = " "

\* C10 (as claimed): both lookups fail with the not-found error (RuntimeError)
\* when the report is absent, empty, or has no line beginning with the tag.
C10_Original ==
  (out.which # "none" /\ (report.none \/ ~Matches(report.text, tag)))
  => out.exc = "RuntimeError"

\* C10 (amended): when the report is absent both lookups fail with the not-found
\* error; when the report has no line beginning with the tag (an empty report
\* included) the "current object" lookup fails with an IndexError, returning
\* nothing, and the "all objects" lookup returns the empty sequence.
C10_Amended ==
  (out.which # "none" /\ (report.none \/ ~Matches(report.text, tag)))
  => IF report.none THEN out.exc = "RuntimeError"
     ELSE IF out.which = "current" THEN out.exc = "IndexError"
     ELSE out.exc = NoExc /\ out.names = <<>>

C10_Witness ==
  /\ out.which = "all" /\ ~report.none /\ Len(report.text) > 0
  /\ ~Matches(report.text, tag) /\ out.exc = NoExc /\ out.names = <<>>
====
